---------------------------- MODULE Spec2Model ----------------------------
(***************************************************************************)
(* Power flow by Newton-Raphson (gsjunqueira/power_flow): the assembly of  *)
(* the nodal admittance matrix (power_flow/ybus.py) and the iteration of   *)
(* NewtonRaphson.solve (power_flow/newtonraphson.py and power_flow/solver). *)
(*                                                                         *)
(* Arithmetic.  The program computes in IEEE doubles.  The admittance      *)
(* matrix is modelled in exact complex rational arithmetic (a complex      *)
(* number is [re, im, den] in lowest terms).  The solver is modelled on a  *)
(* grid of whole numbers: +, - and * are exact, / rounds to the grid, and  *)
(* an angle is a whole number of quarter turns, so that cos and sin are    *)
(* exact.  Every expression is the one of the source, evaluated on these   *)
(* numbers.                                                                *)
(***************************************************************************)
EXTENDS Integers, Sequences, FiniteSets, TLC

(***************************************************************************)
(* Bounds of the exploration                                               *)
(***************************************************************************)
\* number of elements (lines + transformers + shunts) given to Ybus
MaxElems == 3
\* largest max_iter given to NewtonRaphson
MaxIter == 2
\* largest magnitude of a voltage or an angle the exploration follows
MaxVal == 4
\* calls of solve on one NewtonRaphson object after the first
MaxChamadas == 1

(***************************************************************************)
(* Exact arithmetic for ybus.py                                            *)
(***************************************************************************)
Abs(n) == IF n < 0 THEN -n ELSE n

RECURSIVE Gcd(_, _)
Gcd(a, b) == IF b = 0 THEN Abs(a) ELSE Gcd(b, a % b)

\* a real number read from the input, n/d with d > 0
Rat(n, d) == <<n, d>>

\* the complex number (re + j im)/den in lowest terms, den > 0
Norm(re, im, den) ==
    LET s == IF den < 0 THEN -1 ELSE 1
        g == Gcd(Gcd(Abs(re), Abs(im)), Abs(den))
    IN  [re |-> (s * re) \div g, im |-> (s * im) \div g, den |-> (s * den) \div g]

\* complex(r, x) of two reals
complex(r, x) == Norm(r[1] * x[2], x[1] * r[2], r[2] * x[2])

CZero == [re |-> 0, im |-> 0, den |-> 1]
COne == [re |-> 1, im |-> 0, den |-> 1]

CAdd(a, b) == Norm(a.re * b.den + b.re * a.den, a.im * b.den + b.im * a.den, a.den * b.den)
CNeg(a) == [re |-> -a.re, im |-> -a.im, den |-> a.den]
CMul(a, b) == Norm(a.re * b.re - a.im * b.im, a.re * b.im + a.im * b.re, a.den * b.den)
conj(a) == [re |-> a.re, im |-> -a.im, den |-> a.den]
\* a / b for b # 0: a * conj(b) / |b|^2, with |b|^2 = m / b.den^2
CDiv(a, b) ==
    LET m == b.re * b.re + b.im * b.im
        n == CMul(a, conj(b))
    IN  Norm(n.re * b.den * b.den, n.im * b.den * b.den, n.den * m)
\* half of a real, as complex(0, b / 2)
HalfJ(b) == Norm(0, b[1], 2 * b[2])

\* exp(1j * deg2rad(fase)) for the phase shifts of the model: 0 and 90 degrees,
\* and 53 standing for the angle of the 3-4-5 triangle (53.13 degrees), whose
\* cosine and sine are rational.
CisDeg(fase) ==
    CASE fase = 0 -> COne
      [] fase = 90 -> [re |-> 0, im |-> 1, den |-> 1]
      [] fase = 53 -> [re |-> 3, im |-> 4, den |-> 5]


(***************************************************************************)
(* The input data of the model                                             *)
(***************************************************************************)
\* bus names; "Z" is a name that no bus carries
Nomes == {"A", "B", "C"}
Desconhecida == "Z"
\* the order of str, the one sorted() uses
Ord(nome) == CASE nome = "A" -> 1 [] nome = "B" -> 2 [] nome = "C" -> 3 [] nome = "Z" -> 4

\* the bus lists given to Ybus: names in any order, possibly repeated
BarrasEntrada == {<<"A", "B", "C">>, <<"C", "A", "B", "A">>}

\* a line of series admittance y = -2j and no charging (r = 0, x = 1/2, b = 0)
LinhaJ2(de, para, st) ==
    [de |-> de, para |-> para, r |-> Rat(0, 1), x |-> Rat(1, 2), b |-> Rat(0, 1), status |-> st]
\* a line of series admittance y = 1 - j and charging b = 2 (r = x = 1/2)
LinhaRX(de, para, st) ==
    [de |-> de, para |-> para, r |-> Rat(1, 2), x |-> Rat(1, 2), b |-> Rat(2, 1), status |-> st]
\* a transformer of series admittance y = -2j (r = 0, x = 1/2, b = 0)
Trafo(de, para, tap, fase, st) ==
    [de |-> de, para |-> para, r |-> Rat(0, 1), x |-> Rat(1, 2), b |-> Rat(0, 1),
     tap |-> Rat(tap, 1), fase |-> fase, status |-> st]
Shunt(barra, st) == [barra |-> barra, b |-> Rat(1, 1), status |-> st]

\* the lines, transformers and shunts a reader may append: in and out of
\* service, in parallel and in opposite directions, with and without tap and
\* phase shift, and with an endpoint that is no bus
Linhas == {LinhaJ2("A", "B", TRUE), LinhaJ2("A", "B", FALSE),
           LinhaRX("A", "B", TRUE), LinhaRX("B", "C", TRUE),
           LinhaJ2("A", Desconhecida, TRUE)}
Trafos == {Trafo("A", "B", 1, 0, TRUE), Trafo("A", "B", 2, 0, TRUE),
           Trafo("A", "B", 1, 53, TRUE), Trafo("B", "A", 1, 53, TRUE),
           Trafo("A", "B", 2, 53, FALSE), Trafo("B", Desconhecida, 1, 0, TRUE)}
Shunts == {Shunt("A", TRUE), Shunt("A", FALSE), Shunt("B", TRUE), Shunt(Desconhecida, TRUE)}

(***************************************************************************)
(* ybus.py                                                                 *)
(***************************************************************************)
SetToSortedSeq(S) ==
    LET RECURSIVE Sorted(_)
        Sorted(T) == IF T = {} THEN <<>>
                     ELSE LET m == CHOOSE a \in T : \A c \in T : Ord(a) <= Ord(c)
                          IN  <<m>> \o Sorted(T \ {m})
    IN  Sorted(S)

\* barra_nomes = sorted(set(b.nome for b in barras))
barra_nomes(barras) == SetToSortedSeq({barras[i] : i \in 1..Len(barras)})

\* barra_map = {nome: idx for idx, nome in enumerate(barra_nomes)} (positions from 1)
barra_map(nomes) == [n \in {nomes[i] : i \in 1..Len(nomes)} |->
                        CHOOSE i \in 1..Len(nomes) : nomes[i] = n]

\* _admitancia_linha with the last term put at (i, j) instead of (j, i)
admitancia_linha_ij(linha, bmap) ==
    LET i == bmap[linha.de]
        j == bmap[linha.para]
        y == CDiv(COne, complex(linha.r, linha.x))
        b == HalfJ(linha.b)
    IN  << <<i, i, CAdd(y, b)>>, <<j, j, CAdd(y, b)>>, <<i, j, CNeg(y)>>, <<i, j, CNeg(y)>> >>

\* _admitancia_linha: the four terms (i, j, y) of a line; the status is not read
admitancia_linha(linha, bmap) ==
    LET i == bmap[linha.de]
        j == bmap[linha.para]
        z == complex(linha.r, linha.x)
        y == CDiv(COne, z)
        b == HalfJ(linha.b)
    IN  << <<i, i, CAdd(y, b)>>, <<j, j, CAdd(y, b)>>, <<i, j, CNeg(y)>>, <<j, i, CNeg(y)>> >>

\* a = trafo.tap * exp(1j * deg2rad(trafo.fase))
tap_complexo(trafo) == CMul(complex(trafo.tap, Rat(0, 1)), CisDeg(trafo.fase))

\* _admitancia_transformador with -y / a in both mutual terms
admitancia_transformador_sim(trafo, bmap) ==
    LET i == bmap[trafo.de]
        j == bmap[trafo.para]
        y == CDiv(COne, complex(trafo.r, trafo.x))
        b == HalfJ(trafo.b)
        a == tap_complexo(trafo)
    IN  << <<i, i, CAdd(CDiv(y, CMul(a, conj(a))), b)>>, <<i, j, CDiv(CNeg(y), a)>>,
           <<j, i, CDiv(CNeg(y), a)>>, <<j, j, CAdd(y, b)>> >>

\* _admitancia_transformador: the four terms of a transformer; the status is not read
admitancia_transformador(trafo, bmap) ==
    LET i == bmap[trafo.de]
        j == bmap[trafo.para]
        z == complex(trafo.r, trafo.x)
        y == CDiv(COne, z)
        b == HalfJ(trafo.b)
        a == tap_complexo(trafo)
        Yff == CAdd(CDiv(y, CMul(a, conj(a))), b)
        Yft == CDiv(CNeg(y), conj(a))
        Ytf == CDiv(CNeg(y), a)
        Ytt == CAdd(y, b)
    IN  << <<i, i, Yff>>, <<i, j, Yft>>, <<j, i, Ytf>>, <<j, j, Ytt>> >>

\* the accumulation with ybus[i, j] = y in place of ybus[i, j] += y
RECURSIVE AcumulaSobrescreve(_, _)
AcumulaSobrescreve(m, termos) ==
    IF termos = <<>> THEN m
    ELSE LET t == Head(termos)
         IN  AcumulaSobrescreve([m EXCEPT ![t[1], t[2]] = t[3]], Tail(termos))

\* for i, j, y in termos: ybus[i, j] += y
RECURSIVE Acumula(_, _)
Acumula(m, termos) ==
    IF termos = <<>> THEN m
    ELSE LET t == Head(termos)
         IN  Acumula([m EXCEPT ![t[1], t[2]] = CAdd(@, t[3])], Tail(termos))

\* the lookups barra_map[linha.de], barra_map[linha.para] raise KeyError
RamoConhecido(ramo, bmap) == ramo.de \in DOMAIN bmap /\ ramo.para \in DOMAIN bmap

\* the shunt loop without the test of shunt.status
termos_shunt_sem_status(shunt, bmap) ==
    IF shunt.barra \in DOMAIN bmap
    THEN << <<bmap[shunt.barra], bmap[shunt.barra], complex(Rat(0, 1), shunt.b)>> >>
    ELSE <<>>

\* the shunt loop: if shunt.status and shunt.barra in barra_map
termos_shunt(shunt, bmap) ==
    IF shunt.status /\ shunt.barra \in DOMAIN bmap
    THEN << <<bmap[shunt.barra], bmap[shunt.barra], complex(Rat(0, 1), shunt.b)>> >>
    ELSE <<>>

\* the terms of the loops "for linha in linhas", "for trafo in transformadores"
\* and "for shunt in shunts", in list order
RECURSIVE termos_linhas(_, _)
termos_linhas(linhas, bmap) ==
    IF linhas = <<>> THEN <<>>
    ELSE admitancia_linha(Head(linhas), bmap) \o termos_linhas(Tail(linhas), bmap)

RECURSIVE termos_trafos(_, _)
termos_trafos(transformadores, bmap) ==
    IF transformadores = <<>> THEN <<>>
    ELSE admitancia_transformador(Head(transformadores), bmap)
            \o termos_trafos(Tail(transformadores), bmap)

RECURSIVE termos_shunts(_, _)
termos_shunts(shunts, bmap) ==
    IF shunts = <<>> THEN <<>>
    ELSE termos_shunt(Head(shunts), bmap) \o termos_shunts(Tail(shunts), bmap)

\* Ybus.__new__ with barra_map[shunt.barra] looked up for every shunt in
\* service, as the endpoints of lines and transformers are
Ybus_shunt_KeyError(linhas, transformadores, barras, shunts) ==
    LET nomes == barra_nomes(barras)
        bmap == barra_map(nomes)
        nb == Len(nomes)
        zeros == [p \in (1..nb) \X (1..nb) |-> CZero]
        ok == /\ \A k \in 1..Len(linhas) : RamoConhecido(linhas[k], bmap)
              /\ \A k \in 1..Len(transformadores) : RamoConhecido(transformadores[k], bmap)
              /\ \A k \in 1..Len(shunts) :
                    shunts[k].status => shunts[k].barra \in DOMAIN bmap
    IN  IF ~ok THEN [erro |-> "KeyError", nomes |-> <<>>, y |-> <<>>]
        ELSE [erro |-> "nenhum", nomes |-> nomes,
              y |-> Acumula(Acumula(Acumula(zeros,
                        termos_linhas(linhas, bmap)),
                        termos_trafos(transformadores, bmap)),
                        termos_shunts(shunts, bmap))]

\* Ybus.__new__: the matrix labelled by barra_nomes, or the KeyError of an
\* endpoint that barra_map does not hold (no matrix is returned)
Ybus(linhas, transformadores, barras, shunts) ==
    LET nomes == barra_nomes(barras)
        bmap == barra_map(nomes)
        nb == Len(nomes)
        zeros == [p \in (1..nb) \X (1..nb) |-> CZero]
        ok == /\ \A k \in 1..Len(linhas) : RamoConhecido(linhas[k], bmap)
              /\ \A k \in 1..Len(transformadores) : RamoConhecido(transformadores[k], bmap)
    IN  IF ~ok THEN [erro |-> "KeyError", nomes |-> <<>>, y |-> <<>>]
        ELSE [erro |-> "nenhum", nomes |-> nomes,
              y |-> Acumula(Acumula(Acumula(zeros,
                        termos_linhas(linhas, bmap)),
                        termos_trafos(transformadores, bmap)),
                        termos_shunts(shunts, bmap))]

\* Ybus.loc[k, m] by bus names
Loc(yb, k, m) ==
    LET bmap == barra_map(yb.nomes) IN yb.y[bmap[k], bmap[m]]


(***************************************************************************)
(* Grid arithmetic for the solver                                          *)
(***************************************************************************)
\* a / b rounded down to the grid, b # 0
Div(a, b) == IF b > 0 THEN a \div b ELSE (-a) \div (-b)

\* cos and sin of an angle of t quarter turns
cos(t) == CASE t % 4 = 0 -> 1 [] t % 4 = 1 -> 0 [] t % 4 = 2 -> -1 [] t % 4 = 3 -> 0
sin(t) == CASE t % 4 = 0 -> 0 [] t % 4 = 1 -> 1 [] t % 4 = 2 -> 0 [] t % 4 = 3 -> -1

\* Ybus.map(lambda z: z.real), Ybus.map(lambda z: z.imag), looked up by name
Gloc(yb, k, m) == LET z == Loc(yb, k, m) IN Div(z.re, z.den)
Bloc(yb, k, m) == LET z == Loc(yb, k, m) IN Div(z.im, z.den)

\* list helpers
Elems(seq) == {seq[i] : i \in 1..Len(seq)}
RECURSIVE SumSeq(_)
SumSeq(seq) == IF seq = <<>> THEN 0 ELSE Head(seq) + SumSeq(Tail(seq))
Max(S) == CHOOSE a \in S : \A c \in S : c <= a

(***************************************************************************)
(* solver/power_balance.py                                                 *)
(***************************************************************************)
\* calc_injected_power: P and Q of every bus of V.index
calc_injected_power(yb, V, theta, ordem) ==
    [P |-> [k \in Elems(ordem) |->
              SumSeq([i \in 1..Len(ordem) |->
                 LET m == ordem[i]
                     theta_km == theta[k] - theta[m]
                 IN  V[k] * V[m] * (Gloc(yb, k, m) * cos(theta_km)
                                    + Bloc(yb, k, m) * sin(theta_km))])],
     Q |-> [k \in Elems(ordem) |->
              SumSeq([i \in 1..Len(ordem) |->
                 LET m == ordem[i]
                     theta_km == theta[k] - theta[m]
                 IN  V[k] * V[m] * (Gloc(yb, k, m) * sin(theta_km)
                                    - Bloc(yb, k, m) * cos(theta_km))])]]

\* G = G.loc[ordem, ordem]: the labels of G after its rows and columns are
\* taken in the order of V.index
loc_ordem(yb, ordem) == [i \in 1..Len(ordem) |-> yb.nomes[barra_map(yb.nomes)[ordem[i]]]]

\* assert list(G.index) == list(V.index); assert list(B.index) == list(V.index)
\* (theta and V are columns of one table, so their indices are one)
indices_coincidem(yb, ordem) == loc_ordem(yb, ordem) = ordem

\* the lookup pot_esp.loc[barra, ...] raises KeyError for a bus without a row
FaltaEmPotEsp(pot, barras) == \E i \in 1..Len(barras) : barras[i] \notin DOMAIN pot

\* the last bus of the loop without a row, in place of the first
UltimaFaltante(pot, barras) ==
    barras[CHOOSE i \in 1..Len(barras) :
              /\ barras[i] \notin DOMAIN pot
              /\ \A j \in (i + 1)..Len(barras) : barras[j] \in DOMAIN pot]

\* the first bus of the loop "for barra in ..." without a row
PrimeiraFaltante(pot, barras) ==
    barras[CHOOSE i \in 1..Len(barras) :
              /\ barras[i] \notin DOMAIN pot
              /\ \A j \in 1..(i - 1) : barras[j] \in DOMAIN pot]

\* KeyError(f"Barra '{barra}' não encontrada em pot_esp")
KeyError(barra) ==
    CASE barra = "A" -> "KeyError: Barra 'A'"
      [] barra = "B" -> "KeyError: Barra 'B'"
      [] barra = "C" -> "KeyError: Barra 'C'"

\* calc_delta_p with P - P_esp in place of P_esp - P
calc_delta_p_sinal(P, pot, index, swing) ==
    [i \in 1..Len(index) |->
        IF index[i] \in Elems(swing) THEN 0 ELSE P[index[i]] - pot[index[i]].P_esp]

\* calc_delta_p without the loop that zeroes the swing buses
calc_delta_p_sem_swing(P, pot, index, swing) ==
    [i \in 1..Len(index) |-> pot[index[i]].P_esp - P[index[i]]]

\* calc_delta_p: one entry per bus of index, 0 for the swing buses
calc_delta_p(P, pot, index, swing) ==
    [i \in 1..Len(index) |->
        IF index[i] \in Elems(swing) THEN 0 ELSE pot[index[i]].P_esp - P[index[i]]]

\* calc_delta_q without the loop that zeroes the swing buses
calc_delta_q_sem_swing(Q, pot, pq, swing) ==
    LET barras_q == swing \o pq
    IN  [i \in 1..Len(barras_q) |-> pot[barras_q[i]].Q_esp - Q[barras_q[i]]]

\* calc_delta_q with barras_q = pq + swing
calc_delta_q_pq_swing(Q, pot, pq, swing) ==
    LET barras_q == pq \o swing
    IN  [i \in 1..Len(barras_q) |->
            IF barras_q[i] \in Elems(swing) THEN 0 ELSE pot[barras_q[i]].Q_esp - Q[barras_q[i]]]

\* calc_delta_q: one entry per bus of swing + pq, 0 for the swing buses
calc_delta_q(Q, pot, pq, swing) ==
    LET barras_q == swing \o pq
    IN  [i \in 1..Len(barras_q) |->
            IF barras_q[i] \in Elems(swing) THEN 0 ELSE pot[barras_q[i]].Q_esp - Q[barras_q[i]]]

(***************************************************************************)
(* solver/convergence.py                                                   *)
(***************************************************************************)
\* np.max(np.abs(mismatch))
max_mismatch(mismatch) == Max({Abs(mismatch[i]) : i \in 1..Len(mismatch)})

\* check_convergence with <= in place of <
check_convergence_le(mismatch, tol) == max_mismatch(mismatch) <= tol

check_convergence(mismatch, tol) == max_mismatch(mismatch) < tol


(***************************************************************************)
(* solver/jacobian.py                                                      *)
(***************************************************************************)
BIG_NUMBER == 1

\* _build_H with the diagonal -Q[k] - B[k, k], without the factor V[k] ** 2
build_H_sem_V(yb, V, theta, Q, swing, index) ==
    [p \in (1..Len(index)) \X (1..Len(index)) |->
        LET k == index[p[1]]
            m == index[p[2]]
            theta_km == theta[k] - theta[m]
        IN  IF k \in Elems(swing) \/ m \in Elems(swing)
            THEN (IF k = m THEN BIG_NUMBER ELSE 0)
            ELSE IF k = m
            THEN -Q[k] - Bloc(yb, k, k)
            ELSE V[k] * V[m] * (Gloc(yb, k, m) * sin(theta_km)
                                - Bloc(yb, k, m) * cos(theta_km))]

\* H[i, j], i and j positions in index
build_H(yb, V, theta, Q, swing, index) ==
    [p \in (1..Len(index)) \X (1..Len(index)) |->
        LET k == index[p[1]]
            m == index[p[2]]
            theta_km == theta[k] - theta[m]
        IN  IF k \in Elems(swing) \/ m \in Elems(swing)
            THEN (IF k = m THEN BIG_NUMBER ELSE 0)
            ELSE IF k = m
            THEN -Q[k] - (V[k] * V[k]) * Bloc(yb, k, k)
            ELSE V[k] * V[m] * (Gloc(yb, k, m) * sin(theta_km)
                                - Bloc(yb, k, m) * cos(theta_km))]

\* the positions of N and L where the code divides by V[k] = 0: numpy gives a
\* non-finite entry (nan or inf) there and goes on
DivideByZero(V, linhas, colunas, swing) ==
    {p \in (1..Len(linhas)) \X (1..Len(colunas)) :
        /\ linhas[p[1]] = colunas[p[2]]
        /\ linhas[p[1]] \notin Elems(swing)
        /\ V[linhas[p[1]]] = 0}

\* _build_N with the diagonal of a swing bus set as _build_H and _build_L set it
build_N_big_number(yb, V, theta, P, pq, swing, index) ==
    LET colunas == swing \o pq
    IN  [p \in (1..Len(index)) \X (1..Len(colunas)) |->
            LET k == index[p[1]]
                m == colunas[p[2]]
                theta_km == theta[k] - theta[m]
            IN  IF k \in Elems(swing) \/ m \in Elems(swing)
                THEN (IF k = m THEN BIG_NUMBER ELSE 0)
                ELSE IF k = m
                THEN (IF V[k] = 0 THEN 0
                      ELSE Div(P[k] + (V[k] * V[k]) * Gloc(yb, k, k), V[k]))
                ELSE V[k] * (Gloc(yb, k, m) * cos(theta_km)
                             + Bloc(yb, k, m) * sin(theta_km))]

\* N[i, j], i a position in index, j in swing + pq; 0 stands at a non-finite entry
build_N(yb, V, theta, P, pq, swing, index) ==
    LET colunas == swing \o pq
    IN  [p \in (1..Len(index)) \X (1..Len(colunas)) |->
            LET k == index[p[1]]
                m == colunas[p[2]]
                theta_km == theta[k] - theta[m]
            IN  IF k \in Elems(swing) \/ m \in Elems(swing)
                THEN 0
                ELSE IF k = m
                THEN (IF V[k] = 0 THEN 0
                      ELSE Div(P[k] + (V[k] * V[k]) * Gloc(yb, k, k), V[k]))
                ELSE V[k] * (Gloc(yb, k, m) * cos(theta_km)
                             + Bloc(yb, k, m) * sin(theta_km))]

\* M[i, j], i a position in swing + pq, j in index
build_M(yb, V, theta, P, pq, swing, index) ==
    LET linhas == swing \o pq
    IN  [p \in (1..Len(linhas)) \X (1..Len(index)) |->
            LET k == linhas[p[1]]
                m == index[p[2]]
                theta_km == theta[k] - theta[m]
            IN  IF k \in Elems(swing) \/ m \in Elems(swing)
                THEN 0
                ELSE IF k = m
                THEN P[k] - (V[k] * V[k]) * Gloc(yb, k, k)
                ELSE -V[k] * V[m] * (Gloc(yb, k, m) * cos(theta_km)
                                     + Bloc(yb, k, m) * sin(theta_km))]

\* L[i, j], i and j positions in swing + pq; 0 stands at a non-finite entry
build_L(yb, V, theta, Q, pq, swing) ==
    LET colunas == swing \o pq
    IN  [p \in (1..Len(colunas)) \X (1..Len(colunas)) |->
            LET k == colunas[p[1]]
                m == colunas[p[2]]
                theta_km == theta[k] - theta[m]
            IN  IF k \in Elems(swing) \/ m \in Elems(swing)
                THEN (IF k = m THEN BIG_NUMBER ELSE 0)
                ELSE IF k = m
                THEN (IF V[k] = 0 THEN 0
                      ELSE Div(Q[k] - (V[k] * V[k]) * Bloc(yb, k, k), V[k]))
                ELSE V[k] * (Gloc(yb, k, m) * sin(theta_km)
                             - Bloc(yb, k, m) * cos(theta_km))]

\* the Jacobian of the unknowns of the textbook method: the columns and rows of
\* the magnitudes of the pq buses only
JacobianSoPQ(yb, V, theta, P, Q, pq, pv, swing, index) ==
    LET H == build_H(yb, V, theta, Q, swing, index)
        N == build_N(yb, V, theta, P, pq, swing, index)
        M == build_M(yb, V, theta, P, pq, swing, index)
        L == build_L(yb, V, theta, Q, pq, swing)
        nt == Len(index)
        ns == Len(swing)
        nv == Len(pq)
    IN  [n |-> nt + nv,
         J |-> [p \in (1..(nt + nv)) \X (1..(nt + nv)) |->
                  IF p[1] <= nt
                  THEN (IF p[2] <= nt THEN H[p[1], p[2]] ELSE N[p[1], p[2] - nt + ns])
                  ELSE (IF p[2] <= nt THEN M[p[1] - nt + ns, p[2]]
                        ELSE L[p[1] - nt + ns, p[2] - nt + ns])],
         naoFinito |-> {}]

\* Jacobian._build: vstack((hstack((H, N)), hstack((M, L)))); naoFinito holds the
\* positions of the non-finite entries
Jacobian(yb, V, theta, P, Q, pq, pv, swing, index) ==
    LET H == build_H(yb, V, theta, Q, swing, index)
        N == build_N(yb, V, theta, P, pq, swing, index)
        M == build_M(yb, V, theta, P, pq, swing, index)
        L == build_L(yb, V, theta, Q, pq, swing)
        nt == Len(index)
        nv == Len(swing \o pq)
    IN  [n |-> nt + nv,
         J |-> [p \in (1..(nt + nv)) \X (1..(nt + nv)) |->
                  IF p[1] <= nt
                  THEN (IF p[2] <= nt THEN H[p[1], p[2]] ELSE N[p[1], p[2] - nt])
                  ELSE (IF p[2] <= nt THEN M[p[1] - nt, p[2]] ELSE L[p[1] - nt, p[2] - nt])],
         naoFinito |->
                {<<p[1], p[2] + nt>> : p \in DivideByZero(V, index, swing \o pq, swing)}
                \cup {<<p[1] + nt, p[2] + nt>> :
                         p \in DivideByZero(V, swing \o pq, swing \o pq, swing)}]


(***************************************************************************)
(* numpy.linalg.solve                                                      *)
(***************************************************************************)
\* Elimination of the augmented matrix [J | b] without fractions: every entry
\* stays a whole number (a minor of [J | b]) and the system is singular exactly
\* when some column has no pivot, which is where LAPACK's gesv reports a zero
\* pivot and numpy raises LinAlgError.
\* the augmented matrices of n rows of whole numbers
Aumentadas(n) == [1..n -> [1..(n + 1) -> Int]]

RECURSIVE Elimina(_, _, _, _)
Elimina(A, k, prev, n) ==
    IF k > n THEN [singular |-> FALSE, A |-> A]
    ELSE LET cand == {i \in k..n : A \in Aumentadas(n) /\ A[i][k] # 0}
         IN  IF cand = {} THEN [singular |-> TRUE, A |-> A]
             ELSE LET pr == CHOOSE i \in cand : \A c \in cand : i <= c
                      S == [A EXCEPT ![k] = A[pr], ![pr] = A[k]]
                      piv == S[k][k]
                  IN  Elimina([i \in 1..n |->
                                 IF i = k THEN S[k]
                                 ELSE [j \in 1..(n + 1) |->
                                         Div(piv * S[i][j] - S[i][k] * S[k][j], prev)]],
                              k + 1, piv, n)

\* linalg.solve(J, b): the solution of J x = b rounded to the grid, or LinAlgError.
\* A non-finite entry of J stands in a matrix with a zero column (V[k] = 0 makes
\* the whole column of theta[k] zero), so the elimination ends in LinAlgError
\* whatever stands at that entry.
linalg_solve(jac, b) ==
    LET n == jac.n
        A == [i \in 1..n |-> [j \in 1..(n + 1) |-> IF j <= n THEN jac.J[i, j] ELSE b[i]]]
        e == Elimina(A, 1, 1, n)
    IN  IF e.singular THEN [erro |-> "LinAlgError", x |-> <<>>]
        ELSE [erro |-> "nenhum", x |-> [i \in 1..n |-> Div(e.A[i][n + 1], e.A[i][i])]]

(***************************************************************************)
(* solver/residuals.py and solver/update.py                                *)
(***************************************************************************)
\* split_corrections with the magnitudes taken as delta[n_v:n_v + n_v]
split_corrections_n_v(d, n_theta, n_v) ==
    [delta_theta |-> SubSeq(d, 1, n_theta), delta_v |-> SubSeq(d, n_v + 1, n_v + n_v)]

\* split_corrections: delta[:n_theta], delta[n_theta:n_theta + n_v]
split_corrections(d, n_theta, n_v) ==
    [delta_theta |-> SubSeq(d, 1, n_theta), delta_v |-> SubSeq(d, n_theta + 1, n_theta + n_v)]

\* the position of nome in a list without repetitions
Pos(seq, nome) == CHOOSE i \in 1..Len(seq) : seq[i] = nome

\* apply_delta with the second loop over zip(index, delta_v)
apply_delta_zip(theta, V, d, index, swing, pq) ==
    LET sp == split_corrections(d, Len(index), Len(swing \o pq))
        barras_v == SubSeq(index, 1, Len(swing \o pq))
    IN  [theta |-> [nome \in DOMAIN theta |->
                      IF nome \in Elems(index)
                      THEN theta[nome] - sp.delta_theta[Pos(index, nome)]
                      ELSE theta[nome]],
         V |-> [nome \in DOMAIN V |->
                      IF nome \in Elems(barras_v)
                      THEN V[nome] - sp.delta_v[Pos(barras_v, nome)]
                      ELSE V[nome]]]

\* apply_delta: theta.loc[nome] -= delta_theta[i]; V.loc[nome] -= delta_v[i]
apply_delta(theta, V, d, index, swing, pq) ==
    LET sp == split_corrections(d, Len(index), Len(swing \o pq))
        barras_v == swing \o pq
    IN  [theta |-> [nome \in DOMAIN theta |->
                      IF nome \in Elems(index)
                      THEN theta[nome] - sp.delta_theta[Pos(index, nome)]
                      ELSE theta[nome]],
         V |-> [nome \in DOMAIN V |->
                      IF nome \in Elems(barras_v)
                      THEN V[nome] - sp.delta_v[Pos(barras_v, nome)]
                      ELSE V[nome]]]


(***************************************************************************)
(* The systems given to the solver                                         *)
(***************************************************************************)
\* Bus.tipo of every bus: one swing, a PV and a PQ bus; one swing and two PQ
\* buses; two swing buses; and a bus whose tipo is the string "pq", which
\* ReaderJson.read_bus hands to Bus as it stands in the file
Tipos == {[A |-> "SWING", B |-> "PV", C |-> "PQ"],
          [A |-> "PQ", B |-> "SWING", C |-> "PQ"],
          [A |-> "PQ", B |-> "PV", C |-> "SWING"],
          [A |-> "SWING", B |-> "SWING", C |-> "PQ"],
          [A |-> "SWING", B |-> "pq", C |-> "PQ"]}
\* the order of the buses in Sistema.barras
Ordens == {<<"A", "B", "C">>, <<"C", "A", "B">>}

\* networks whose admittances are whole numbers
Redes == {[linhas |-> <<LinhaJ2("A", "B", TRUE), LinhaRX("B", "C", TRUE)>>,
           transformadores |-> <<>>,
           shunts |-> <<>>],
          [linhas |-> <<LinhaJ2("A", "B", TRUE), LinhaRX("C", "A", TRUE)>>,
           transformadores |-> <<Trafo("B", "C", 1, 90, TRUE)>>,
           shunts |-> <<Shunt("B", TRUE)>>]}

\* Bus.v and Bus.theta of every bus
PerfisV == {[A |-> 1, B |-> 1, C |-> 1], [A |-> 1, B |-> 2, C |-> 1], [A |-> 2, B |-> 1, C |-> 0]}
PerfisTheta == {[A |-> 0, B |-> 0, C |-> 0], [A |-> 0, B |-> 1, C |-> 0]}
\* generation minus load of every bus
Potencias == {[A |-> [P_esp |-> 0, Q_esp |-> 0], B |-> [P_esp |-> 0, Q_esp |-> 0],
               C |-> [P_esp |-> 0, Q_esp |-> 0]],
              [A |-> [P_esp |-> 0, Q_esp |-> 0], B |-> [P_esp |-> 2, Q_esp |-> 0],
               C |-> [P_esp |-> -2, Q_esp |-> -1]],
              [A |-> [P_esp |-> 1, Q_esp |-> 1], B |-> [P_esp |-> -1, Q_esp |-> 0],
               C |-> [P_esp |-> 0, Q_esp |-> 2]]}
Tolerancias == {1, 3}

(***************************************************************************)
(* State                                                                   *)
(***************************************************************************)
VARIABLES
    linhas, transformadores, shunts, barras,  \* the lists given to Sistema / Ybus
    bus,                                      \* the fields v and theta of the Bus objects
    ybus,                                     \* Sistema.ybus, referenced by the solver
    df_bus,                                   \* Sistema.df_bus: a row per bus name
    V, theta,                                 \* NewtonRaphson.V, NewtonRaphson.theta
    pot_esp, tol, max_iter,                   \* NewtonRaphson.pot_esp, .tol, .max_iter
    pq, pv, swing, index,                     \* the bus lists of NewtonRaphson
    iteration, P, Q, mismatch, J, delta,      \* the locals of solve
    pc,                                       \* the position in Ybus assembly or in solve
    ret,                                      \* what solve returned
    erro,                                     \* the exception that left solve or Ybus
    n_aval, n_atual,                          \* calls of calc_injected_power, of apply_delta
    chamadas                                  \* what the earlier calls of solve returned

redeVars == <<linhas, transformadores, shunts, barras, bus, ybus>>
sistemaVars == <<df_bus, pot_esp, tol, max_iter, pq, pv, swing, index>>
localVars == <<P, Q, mismatch, J, delta>>
vars == <<linhas, transformadores, shunts, barras, bus, ybus, df_bus, V, theta, pot_esp, tol,
          max_iter, pq, pv, swing, index, iteration, P, Q, mismatch, J, delta, pc, ret,
          erro, n_aval, n_atual, chamadas>>

SemRetorno == [V |-> <<>>, theta |-> <<>>, convergiu |-> FALSE, n_iter |-> 0]
SemJ == [n |-> 0, J |-> <<>>, naoFinito |-> {}]

(***************************************************************************)
(* Sistema.__init__ and NewtonRaphson.__init__                             *)
(***************************************************************************)
\* self.dbus.index[self.dbus['tipo'].str[0] == t].to_list(): the buses of type
\* t in the order of df_bus
RECURSIVE DoTipo(_, _, _)
DoTipo(ordem, df, t) ==
    IF ordem = <<>> THEN <<>>
    ELSE (IF df[Head(ordem)].tipo = t THEN <<Head(ordem)>> ELSE <<>>)
            \o DoTipo(Tail(ordem), df, t)

\* NewtonRaphson(sistema, tol, max_iter) on a system of the given data whose
\* pot_esp holds the rows of the buses in comPotencia: the state before the
\* first call of solve
NewtonRaphson(rede, ordem, tipo, v0, th0, pot, comPotencia, t, mi) ==
        /\ linhas = rede.linhas
        /\ transformadores = rede.transformadores
        /\ shunts = rede.shunts
        /\ barras = ordem
        /\ bus = [n \in Nomes |-> [v |-> v0[n], theta |-> th0[n]]]
        /\ ybus = Ybus(rede.linhas, rede.transformadores, ordem, rede.shunts)
        /\ df_bus = [n \in Nomes |-> [tipo |-> tipo[n], V |-> v0[n], Theta |-> th0[n],
                                      P_esp |-> pot[n].P_esp, Q_esp |-> pot[n].Q_esp]]
        /\ V = [n \in Nomes |-> v0[n]]
        /\ theta = [n \in Nomes |-> th0[n]]
        /\ pot_esp = [n \in comPotencia |-> [P_esp |-> pot[n].P_esp, Q_esp |-> pot[n].Q_esp]]
        /\ tol = t
        /\ max_iter = mi
        /\ pq = DoTipo(ordem, df_bus, "PQ")
        /\ pv = DoTipo(ordem, df_bus, "PV")
        /\ swing = DoTipo(ordem, df_bus, "SWING")
        /\ index = ordem
        /\ iteration = 0
        /\ P = [n \in Nomes |-> 0]
        /\ Q = [n \in Nomes |-> 0]
        /\ mismatch = <<>>
        /\ J = SemJ
        /\ delta = <<>>
        /\ pc = "for"
        /\ ret = SemRetorno
        /\ erro = "nenhum"
        /\ n_aval = 0
        /\ n_atual = 0
        /\ chamadas = <<>>

\* Sistema(barras, linhas, transformadores) followed by NewtonRaphson(sistema,
\* tol, max_iter): sistema.pot_esp is df_bus[["P_esp", "Q_esp"]], a row per bus
Init ==
    \E rede \in Redes, ordem \in Ordens, tipo \in Tipos, v0 \in PerfisV,
       th0 \in PerfisTheta, pot \in Potencias, t \in Tolerancias, mi \in 0..MaxIter :
        NewtonRaphson(rede, ordem, tipo, v0, th0, pot, Nomes, t, mi)

(***************************************************************************)
(* NewtonRaphson.solve, statement by statement                             *)
(***************************************************************************)
\* the loop with range(self.max_iter + 1)
CalcInjectedPowerUmAMais ==
    /\ pc = "for"
    /\ iteration <= max_iter
    /\ IF indices_coincidem(ybus, index)
       THEN /\ LET r == calc_injected_power(ybus, V, theta, index)
               IN  /\ P' = r.P
                   /\ Q' = r.Q
            /\ pc' = "residuos"
            /\ UNCHANGED erro
       ELSE /\ pc' = "erro"
            /\ erro' = "AssertionError"
            /\ UNCHANGED <<P, Q>>
    /\ n_aval' = n_aval + 1
    /\ UNCHANGED <<redeVars, sistemaVars, V, theta, iteration, mismatch, J, delta, ret,
                   n_atual, chamadas>>

\* for iteration in range(self.max_iter): P, Q = calc_injected_power(...)
CalcInjectedPower ==
    /\ pc = "for"
    /\ iteration < max_iter
    /\ IF indices_coincidem(ybus, index)
       THEN /\ LET r == calc_injected_power(ybus, V, theta, index)
               IN  /\ P' = r.P
                   /\ Q' = r.Q
            /\ pc' = "residuos"
            /\ UNCHANGED erro
       ELSE /\ pc' = "erro"
            /\ erro' = "AssertionError"
            /\ UNCHANGED <<P, Q>>
    /\ n_aval' = n_aval + 1
    /\ UNCHANGED <<redeVars, sistemaVars, V, theta, iteration, mismatch, J, delta, ret,
                   n_atual, chamadas>>

\* the mismatch with the swing rows of pot_esp set to 0 in the table itself
CalcResiduosZeraTabela ==
    /\ pc = "residuos"
    /\ pot_esp' = [n \in DOMAIN pot_esp |->
                      IF n \in Elems(swing) THEN [P_esp |-> 0, Q_esp |-> 0] ELSE pot_esp[n]]
    /\ mismatch' = calc_delta_p(P, pot_esp', index, swing)
                      \o calc_delta_q(Q, pot_esp', pq, swing)
    /\ pc' = "convergencia"
    /\ UNCHANGED <<redeVars, df_bus, tol, max_iter, pq, pv, swing, index, V, theta,
                   iteration, P, Q, J, delta, ret, erro, n_aval, n_atual, chamadas>>

\* deltaP = calc_delta_p(...); deltaQ = calc_delta_q(...);
\* mismatch = concatenate((deltaP, deltaQ)); a bus without a row in pot_esp
\* raises KeyError
CalcResiduos ==
    /\ pc = "residuos"
    /\ IF FaltaEmPotEsp(pot_esp, index)
       THEN /\ pc' = "erro"
            /\ erro' = KeyError(PrimeiraFaltante(pot_esp, index))
            /\ UNCHANGED mismatch
       ELSE IF FaltaEmPotEsp(pot_esp, swing \o pq)
       THEN /\ pc' = "erro"
            /\ erro' = KeyError(PrimeiraFaltante(pot_esp, swing \o pq))
            /\ UNCHANGED mismatch
       ELSE /\ mismatch' = calc_delta_p(P, pot_esp, index, swing)
                              \o calc_delta_q(Q, pot_esp, pq, swing)
            /\ pc' = "convergencia"
            /\ UNCHANGED erro
    /\ UNCHANGED <<redeVars, sistemaVars, V, theta, iteration, P, Q, J, delta, ret,
                   n_aval, n_atual, chamadas>>

\* the iteration without the return of a passed check
CheckConvergenceSemRetorno ==
    /\ pc = "convergencia"
    /\ pc' = "jacobiana"
    /\ UNCHANGED <<redeVars, sistemaVars, V, theta, iteration, localVars, ret, erro, n_aval,
                   n_atual, chamadas>>

\* the return of a passed check with the zero-based count: return self.V,
\* self.theta, True, iteration
CheckConvergenceContaDeZero ==
    /\ pc = "convergencia"
    /\ IF check_convergence(mismatch, tol)
       THEN /\ ret' = [V |-> V, theta |-> theta, convergiu |-> TRUE, n_iter |-> iteration]
            /\ pc' = "retorno"
       ELSE /\ pc' = "jacobiana"
            /\ UNCHANGED ret
    /\ UNCHANGED <<redeVars, sistemaVars, V, theta, iteration, localVars, erro, n_aval,
                   n_atual, chamadas>>

\* if check_convergence(mismatch, tol, ...): return self.V, self.theta, True,
\* iteration + 1
CheckConvergence ==
    /\ pc = "convergencia"
    /\ IF check_convergence(mismatch, tol)
       THEN /\ ret' = [V |-> V, theta |-> theta, convergiu |-> TRUE, n_iter |-> iteration + 1]
            /\ pc' = "retorno"
       ELSE /\ pc' = "jacobiana"
            /\ UNCHANGED ret
    /\ UNCHANGED <<redeVars, sistemaVars, V, theta, iteration, localVars, erro, n_aval,
                   n_atual, chamadas>>

\* J = Jacobian(self.V, self.theta, G, B, P, Q, pq, pv, swing, index).J
BuildJacobian ==
    /\ pc = "jacobiana"
    /\ J' = Jacobian(ybus, V, theta, P, Q, pq, pv, swing, index)
    /\ pc' = "sistema_linear"
    /\ UNCHANGED <<redeVars, sistemaVars, V, theta, iteration, P, Q, mismatch, delta, ret,
                   erro, n_aval, n_atual, chamadas>>

\* linalg.solve followed by a second attempt: a singular system gets the
\* correction 0 and the iteration goes on
LinalgSolveOutraTentativa ==
    /\ pc = "sistema_linear"
    /\ LET r == linalg_solve(J, [i \in 1..Len(mismatch) |-> -mismatch[i]])
       IN  delta' = IF r.erro # "nenhum" THEN [i \in 1..Len(mismatch) |-> 0] ELSE r.x
    /\ pc' = "atualiza"
    /\ UNCHANGED <<redeVars, sistemaVars, V, theta, iteration, P, Q, mismatch, J, ret,
                   erro, n_aval, n_atual, chamadas>>

\* delta = linalg.solve(J, -mismatch)
LinalgSolve ==
    /\ pc = "sistema_linear"
    /\ LET r == linalg_solve(J, [i \in 1..Len(mismatch) |-> -mismatch[i]])
       IN  IF r.erro # "nenhum"
           THEN /\ pc' = "erro"
                /\ erro' = r.erro
                /\ UNCHANGED delta
           ELSE /\ delta' = r.x
                /\ pc' = "atualiza"
                /\ UNCHANGED erro
    /\ UNCHANGED <<redeVars, sistemaVars, V, theta, iteration, P, Q, mismatch, J, ret,
                   n_aval, n_atual, chamadas>>

\* the values the exploration follows
NaFaixa(f) == \A n \in DOMAIN f : f[n] \in -MaxVal..MaxVal

\* the update that ends after the loop of the angles
ApplyDeltaSoTheta ==
    /\ pc = "atualiza"
    /\ LET r == apply_delta(theta, V, delta, index, swing, pq)
       IN  /\ NaFaixa(r.theta)
           /\ theta' = r.theta
    /\ iteration' = iteration + 1
    /\ n_atual' = n_atual + 1
    /\ pc' = "for"
    /\ UNCHANGED <<redeVars, sistemaVars, V, localVars, ret, erro, n_aval, chamadas>>

\* the update of a solver whose V and theta are the columns of df_bus
\* themselves (sistema.df_bus['V'] without .copy())
ApplyDeltaSemCopia ==
    /\ pc = "atualiza"
    /\ LET r == apply_delta(theta, V, delta, index, swing, pq)
       IN  /\ NaFaixa(r.theta) /\ NaFaixa(r.V)
           /\ theta' = r.theta
           /\ V' = r.V
           /\ df_bus' = [n \in DOMAIN df_bus |->
                            [df_bus[n] EXCEPT !.V = r.V[n], !.Theta = r.theta[n]]]
    /\ iteration' = iteration + 1
    /\ n_atual' = n_atual + 1
    /\ pc' = "for"
    /\ UNCHANGED <<redeVars, pot_esp, tol, max_iter, pq, pv, swing, index, localVars, ret,
                   erro, n_aval, chamadas>>

\* self.theta, self.V = apply_delta(...), and the loop goes to the next iteration
ApplyDelta ==
    /\ pc = "atualiza"
    /\ LET r == apply_delta(theta, V, delta, index, swing, pq)
       IN  /\ NaFaixa(r.theta) /\ NaFaixa(r.V)
           /\ theta' = r.theta
           /\ V' = r.V
    /\ iteration' = iteration + 1
    /\ n_atual' = n_atual + 1
    /\ pc' = "for"
    /\ UNCHANGED <<redeVars, sistemaVars, localVars, ret, erro, n_aval, chamadas>>

\* the exhausted loop returning True
ExhaustedConvergiu ==
    /\ pc = "for"
    /\ iteration >= max_iter
    /\ ret' = [V |-> V, theta |-> theta, convergiu |-> TRUE, n_iter |-> max_iter]
    /\ pc' = "retorno"
    /\ UNCHANGED <<redeVars, sistemaVars, V, theta, iteration, localVars, erro, n_aval,
                   n_atual, chamadas>>

\* the exhausted loop followed by a test of the state it ends in
ExhaustedComTeste ==
    /\ pc = "for"
    /\ iteration >= max_iter
    /\ LET r == calc_injected_power(ybus, V, theta, index)
           m == calc_delta_p(r.P, pot_esp, index, swing) \o calc_delta_q(r.Q, pot_esp, pq, swing)
       IN  ret' = [V |-> V, theta |-> theta, convergiu |-> check_convergence(m, tol),
                   n_iter |-> max_iter]
    /\ pc' = "retorno"
    /\ UNCHANGED <<redeVars, sistemaVars, V, theta, iteration, localVars, erro, n_aval,
                   n_atual, chamadas>>

\* the loop is exhausted: return self.V, self.theta, False, self.max_iter
Exhausted ==
    /\ pc = "for"
    /\ iteration >= max_iter
    /\ ret' = [V |-> V, theta |-> theta, convergiu |-> FALSE, n_iter |-> max_iter]
    /\ pc' = "retorno"
    /\ UNCHANGED <<redeVars, sistemaVars, V, theta, iteration, localVars, erro, n_aval,
                   n_atual, chamadas>>

\* a further call that starts over from the setpoints of df_bus
SolveDosValoresIniciais ==
    /\ pc \in {"retorno", "resultados"}
    /\ Len(chamadas) < MaxChamadas
    /\ chamadas' = Append(chamadas, ret)
    /\ ret' = SemRetorno
    /\ V' = [n \in Nomes |-> df_bus[n].V]
    /\ theta' = [n \in Nomes |-> df_bus[n].Theta]
    /\ iteration' = 0
    /\ n_aval' = 0
    /\ n_atual' = 0
    /\ pc' = "for"
    /\ UNCHANGED <<redeVars, sistemaVars, localVars, erro>>

\* a further call that keeps self.V and starts over from the angles of df_bus
SolveDosAngulosIniciais ==
    /\ pc \in {"retorno", "resultados"}
    /\ Len(chamadas) < MaxChamadas
    /\ chamadas' = Append(chamadas, ret)
    /\ ret' = SemRetorno
    /\ theta' = [n \in Nomes |-> df_bus[n].Theta]
    /\ iteration' = 0
    /\ n_aval' = 0
    /\ n_atual' = 0
    /\ pc' = "for"
    /\ UNCHANGED <<redeVars, sistemaVars, V, localVars, erro>>

\* fluxo.solve() called again on the same object, with or without a call of
\* Sistema.atualizar_resultados in between: the loop starts over from self.V,
\* self.theta as the earlier call left them.  chamadas keeps the values the
\* earlier calls returned, as they were at the return.
Solve ==
    /\ pc \in {"retorno", "resultados"}
    /\ Len(chamadas) < MaxChamadas
    /\ chamadas' = Append(chamadas, ret)
    /\ ret' = SemRetorno
    /\ iteration' = 0
    /\ n_aval' = 0
    /\ n_atual' = 0
    /\ pc' = "for"
    /\ UNCHANGED <<redeVars, sistemaVars, V, theta, localVars, erro>>

Next ==
    \/ CalcInjectedPower
    \/ CalcResiduos
    \/ CheckConvergence
    \/ BuildJacobian
    \/ LinalgSolve
    \/ ApplyDelta
    \/ Exhausted
    \/ Solve

Spec == Init /\ [][Next]_vars


(***************************************************************************)
(* The assembly of Ybus from the lists a reader builds                     *)
(***************************************************************************)
SemYbus == [erro |-> "nenhum", nomes |-> <<>>, y |-> <<>>]

\* the lists are empty and no matrix is built
InitYbus ==
    /\ linhas = <<>>
    /\ transformadores = <<>>
    /\ shunts = <<>>
    /\ barras \in BarrasEntrada
    /\ bus = <<>>
    /\ ybus = SemYbus
    /\ df_bus = <<>>
    /\ V = <<>>
    /\ theta = <<>>
    /\ pot_esp = <<>>
    /\ tol = 1
    /\ max_iter = 0
    /\ pq = <<>>
    /\ pv = <<>>
    /\ swing = <<>>
    /\ index = <<>>
    /\ iteration = 0
    /\ P = <<>>
    /\ Q = <<>>
    /\ mismatch = <<>>
    /\ J = SemJ
    /\ delta = <<>>
    /\ pc = "entrada"
    /\ ret = SemRetorno
    /\ erro = "nenhum"
    /\ n_aval = 0
    /\ n_atual = 0
    /\ chamadas = <<>>

NElems == Len(linhas) + Len(transformadores) + Len(shunts)

\* linhas.append(Line(...))
AddLinha ==
    /\ pc = "entrada"
    /\ NElems < MaxElems
    /\ \E l \in Linhas : linhas' = Append(linhas, l)
    /\ UNCHANGED <<transformadores, shunts, barras, bus, ybus, sistemaVars, V, theta, iteration,
                   localVars, pc, ret, erro, n_aval, n_atual, chamadas>>

\* transformadores.append(Transformer(...))
AddTrafo ==
    /\ pc = "entrada"
    /\ NElems < MaxElems
    /\ \E t \in Trafos : transformadores' = Append(transformadores, t)
    /\ UNCHANGED <<linhas, shunts, barras, bus, ybus, sistemaVars, V, theta, iteration,
                   localVars, pc, ret, erro, n_aval, n_atual, chamadas>>

\* shunts.append(Shunt(...))
AddShunt ==
    /\ pc = "entrada"
    /\ NElems < MaxElems
    /\ \E sh \in Shunts : shunts' = Append(shunts, sh)
    /\ UNCHANGED <<linhas, transformadores, barras, bus, ybus, sistemaVars, V, theta, iteration,
                   localVars, pc, ret, erro, n_aval, n_atual, chamadas>>

\* self.ybus = Ybus(linhas, transformadores, barras, self.shunts)
Montar ==
    /\ pc = "entrada"
    /\ LET yb == Ybus(linhas, transformadores, barras, shunts)
       IN  IF yb.erro # "nenhum"
           THEN /\ pc' = "erro"
                /\ erro' = yb.erro
                /\ UNCHANGED ybus
           ELSE /\ ybus' = yb
                /\ pc' = "montada"
                /\ UNCHANGED erro
    /\ UNCHANGED <<linhas, transformadores, shunts, barras, bus, sistemaVars, V, theta,
                   iteration, localVars, ret, n_aval, n_atual, chamadas>>

NextYbus ==
    \/ AddLinha
    \/ AddTrafo
    \/ AddShunt
    \/ Montar

SpecYbus == InitYbus /\ [][NextYbus]_vars


(***************************************************************************)
(* The mismatch functions on a specified-power table given by the caller   *)
(***************************************************************************)
\* the buses with a row in the table given as sistema.pot_esp
Tabelas == {Nomes, {"A", "C"}, {"B"}}

\* NewtonRaphson(sistema, tol, max_iter) on an object whose pot_esp is a table
\* of its own, with or without a row for every bus of df_bus
InitResiduos ==
    \E rede \in Redes, ordem \in Ordens, tipo \in Tipos, v0 \in PerfisV,
       th0 \in PerfisTheta, pot \in Potencias, com \in Tabelas, t \in Tolerancias,
       mi \in 0..MaxIter :
        NewtonRaphson(rede, ordem, tipo, v0, th0, pot, com, t, mi)

\* calc_delta_p(P, pot_esp, index, swing) called on its own with the P of an
\* evaluation: the call is over at "delta_p", with its vector in mismatch or its
\* exception in erro
CalcDeltaP ==
    /\ pc = "residuos"
    /\ IF FaltaEmPotEsp(pot_esp, index)
       THEN /\ erro' = KeyError(PrimeiraFaltante(pot_esp, index))
            /\ UNCHANGED mismatch
       ELSE /\ mismatch' = calc_delta_p(P, pot_esp, index, swing)
            /\ UNCHANGED erro
    /\ pc' = "delta_p"
    /\ UNCHANGED <<redeVars, sistemaVars, V, theta, iteration, P, Q, J, delta, ret,
                   n_aval, n_atual, chamadas>>

\* calc_delta_q(Q, pot_esp, pq, swing) called on its own with the Q of an
\* evaluation: the call is over at "delta_q"
CalcDeltaQ ==
    /\ pc = "residuos"
    /\ IF FaltaEmPotEsp(pot_esp, swing \o pq)
       THEN /\ erro' = KeyError(PrimeiraFaltante(pot_esp, swing \o pq))
            /\ UNCHANGED mismatch
       ELSE /\ mismatch' = calc_delta_q(Q, pot_esp, pq, swing)
            /\ UNCHANGED erro
    /\ pc' = "delta_q"
    /\ UNCHANGED <<redeVars, sistemaVars, V, theta, iteration, P, Q, J, delta, ret,
                   n_aval, n_atual, chamadas>>

NextResiduos ==
    \/ Next
    \/ CalcDeltaP
    \/ CalcDeltaQ

SpecResiduos == InitResiduos /\ [][NextResiduos]_vars

(***************************************************************************)
(* The caller of solve: Sistema.atualizar_resultados                       *)
(***************************************************************************)
\* sistema.atualizar_resultados(V, theta) with the V, theta that solve
\* returned: for barra in self.barras, the row of df_bus and the fields of the
\* Bus object get V[barra.nome] and theta[barra.nome]
AtualizarResultados ==
    /\ pc = "retorno"
    /\ df_bus' = [n \in DOMAIN df_bus |->
                    IF n \in Elems(barras)
                    THEN [df_bus[n] EXCEPT !.V = ret.V[n], !.Theta = ret.theta[n]]
                    ELSE df_bus[n]]
    /\ bus' = [n \in DOMAIN bus |->
                    IF n \in Elems(barras)
                    THEN [v |-> ret.V[n], theta |-> ret.theta[n]]
                    ELSE bus[n]]
    /\ pc' = "resultados"
    /\ UNCHANGED <<linhas, transformadores, shunts, barras, ybus, pot_esp, tol, max_iter,
                   pq, pv, swing, index, V, theta, iteration, localVars, ret, erro, n_aval,
                   n_atual, chamadas>>

NextResultados ==
    \/ Next
    \/ AtualizarResultados

\* NewtonRaphson(sistema).solve() and sistema.atualizar_resultados(V, theta), as
\* main and the API call them
SpecResultados == Init /\ [][NextResultados]_vars


(***************************************************************************)
(* Properties of NewtonRaphson.solve                                       *)
(***************************************************************************)
\* the combined mismatch [dP; dQ] of a state (v, th) of this solver
MismatchDe(v, th) ==
    LET r == calc_injected_power(ybus, v, th, index)
    IN  calc_delta_p(r.P, pot_esp, index, swing) \o calc_delta_q(r.Q, pot_esp, pq, swing)

\* C1: when every one of the max_iter iterations ended in an update (its
\* convergence check failed), solve returns without an exception, with
\* converged = False, the count max_iter and the (V, theta) of the last update;
\* and a result converged = False is only ever returned that way.
C1_Exhaustion ==
    /\ (pc = "retorno" /\ n_atual = max_iter) =>
          /\ ~ret.convergiu
          /\ ret.n_iter = max_iter
          /\ ret.V = V /\ ret.theta = theta
          /\ erro = "nenhum"
    /\ (pc = "retorno" /\ ~ret.convergiu) => (n_atual = max_iter /\ n_aval = max_iter)
    /\ (pc = "for" /\ iteration >= max_iter) => n_atual = max_iter

C1_Witness ==
    /\ pc = "retorno" /\ ~ret.convergiu /\ max_iter = 2 /\ n_atual = 2
    /\ ret.V # [n \in Nomes |-> df_bus[n].V]

\* C2: the convergence check of an iteration comes before its correction: a
\* Jacobian, a linear solve or an update is under way only for a state whose
\* mismatch failed the check, and a result converged = True carries the very
\* state whose mismatch has infinity norm < tol, untouched since the check.
C2_CheckBeforeCorrection ==
    /\ pc \in {"jacobiana", "sistema_linear", "atualiza"} =>
          /\ mismatch = MismatchDe(V, theta)
          /\ \E i \in 1..Len(mismatch) : Abs(mismatch[i]) >= tol
    /\ (pc = "retorno" /\ ret.convergiu) =>
          /\ \A i \in 1..Len(mismatch) : Abs(MismatchDe(ret.V, ret.theta)[i]) < tol
          /\ mismatch = MismatchDe(ret.V, ret.theta)
          /\ ret.V = V /\ ret.theta = theta
          /\ n_atual = ret.n_iter - 1
          /\ n_aval = ret.n_iter

C2_Witness ==
    /\ pc = "retorno" /\ ret.convergiu /\ ret.n_iter = 2
    /\ ret.V # [n \in Nomes |-> df_bus[n].V]

\* C3: the angle and the magnitude of every swing bus stay at their initial
\* values, and every correction computed for a swing bus is 0.
C3_SwingInvariance ==
    /\ \A n \in Elems(swing) : theta[n] = df_bus[n].Theta /\ V[n] = df_bus[n].V
    /\ pc = "atualiza" =>
          \A n \in Elems(swing) :
              /\ delta[Pos(index, n)] = 0
              /\ delta[Len(index) + Pos(swing \o pq, n)] = 0

C3_Witness ==
    /\ n_atual = 2
    /\ \E n \in Nomes : n \notin Elems(swing) /\ theta[n] # df_bus[n].Theta
    /\ \E n \in Nomes : n \notin Elems(swing) /\ V[n] # df_bus[n].V
    /\ \E n \in Elems(swing) : df_bus[n].Theta # 0

\* C4: the magnitude of every PV bus stays at its setpoint.
C4_PVMagnitude == \A n \in Elems(pv) : V[n] = df_bus[n].V

C4_Witness ==
    /\ n_atual >= 1
    /\ \E n \in Elems(pv) : theta[n] # df_bus[n].Theta
    /\ \E n \in Elems(pq) : V[n] # df_bus[n].V

\* the steps solve still has to take at most: six per remaining iteration
Medida ==
    CASE pc = "for" -> 6 * (max_iter - iteration) + 1
      [] pc = "residuos" -> 6 * (max_iter - iteration)
      [] pc = "convergencia" -> 6 * (max_iter - iteration) - 1
      [] pc = "jacobiana" -> 6 * (max_iter - iteration) - 2
      [] pc = "sistema_linear" -> 6 * (max_iter - iteration) - 3
      [] pc = "atualiza" -> 6 * (max_iter - iteration) - 4
      [] OTHER -> 0

\* C5: a call of solve terminates within max_iter iterations: every step of
\* the call lowers a measure that is never negative, and neither the
\* power-balance evaluations nor the updates ever number more than max_iter.
C5_Termination ==
    [][pc # "retorno" =>
       /\ Medida' < Medida
       /\ Medida' >= 0
       /\ n_aval' <= max_iter
       /\ n_atual' <= max_iter
       /\ iteration' <= max_iter]_vars

C5_Witness == pc = "retorno" /\ max_iter = 2 /\ n_aval = 2 /\ n_atual = 2

\* C6: the check passes exactly when every entry of the mismatch is smaller in
\* absolute value than tol, and the step changes neither the mismatch nor the
\* state.
C6_CheckConvergence ==
    [][pc = "convergencia" =>
          /\ (pc' = "retorno" /\ ret'.convergiu)
                <=> (\A i \in 1..Len(mismatch) : Abs(mismatch[i]) < tol)
          /\ pc' = "jacobiana" <=> (\E i \in 1..Len(mismatch) : Abs(mismatch[i]) >= tol)
          /\ UNCHANGED <<mismatch, V, theta, P, Q, pot_esp, ybus>>]_vars

\* a mismatch whose norm equals tol is not converged
C6_Witness ==
    /\ pc = "jacobiana"
    /\ \A i \in 1..Len(mismatch) : Abs(mismatch[i]) <= tol
    /\ \E i \in 1..Len(mismatch) : Abs(mismatch[i]) = tol


(***************************************************************************)
(* Properties of the mismatch vectors                                      *)
(***************************************************************************)
\* C12: the vector calc_delta_p returns has one entry per bus of index, in the
\* order of index; the entry of a swing bus is 0 whatever P_esp - P is there,
\* and the entry of any other bus k is P_esp[k] - P[k].  It is the first part
\* of the mismatch of the iteration.
C12_DeltaP ==
    pc = "convergencia" =>
        LET dP == calc_delta_p(P, pot_esp, index, swing)
        IN  /\ DOMAIN dP = 1..Len(index)
            /\ \A i \in 1..Len(index) :
                  dP[i] = IF index[i] \in Elems(swing) THEN 0
                          ELSE pot_esp[index[i]].P_esp - P[index[i]]
            /\ SubSeq(mismatch, 1, Len(index)) = dP

\* a swing bus whose computed residual is not 0, and another bus with a residual
C12_Witness ==
    /\ pc = "convergencia"
    /\ index = <<"C", "A", "B">>
    /\ \E n \in Elems(swing) : pot_esp[n].P_esp - P[n] # 0
    /\ \E i \in 1..Len(index) : index[i] \notin Elems(swing) /\ mismatch[i] # 0

\* C13: the vector calc_delta_q returns has its entries for the buses of swing
\* followed by those of pq, none of them a PV bus; the entry of a swing bus is
\* 0 and the entry of a PQ bus k is Q_esp[k] - Q[k].  It is the second part of
\* the mismatch of the iteration.
C13_DeltaQ ==
    pc = "convergencia" =>
        LET dQ == calc_delta_q(Q, pot_esp, pq, swing)
            barras_q == swing \o pq
        IN  /\ DOMAIN dQ = 1..(Len(swing) + Len(pq))
            /\ \A i \in 1..Len(barras_q) :
                  /\ barras_q[i] \notin Elems(pv)
                  /\ dQ[i] = IF i <= Len(swing) THEN 0
                             ELSE pot_esp[pq[i - Len(swing)]].Q_esp - Q[pq[i - Len(swing)]]
            /\ SubSeq(mismatch, Len(index) + 1, Len(mismatch)) = dQ
            /\ Len(mismatch) = Len(index) + Len(swing) + Len(pq)

\* a PV bus and a swing bus whose reactive residuals are not 0, and a PQ bus
\* with a residual
C13_Witness ==
    /\ pc = "convergencia"
    /\ \E n \in Elems(pv) : pot_esp[n].Q_esp - Q[n] # 0
    /\ \E n \in Elems(swing) : pot_esp[n].Q_esp - Q[n] # 0
    /\ \E i \in 1..Len(pq) : mismatch[Len(index) + Len(swing) + i] # 0


\* the first bus of a list without a row in pot_esp is b
PrimeiraSemLinha(lista, b) ==
    \E i \in 1..Len(lista) :
        /\ lista[i] = b
        /\ b \notin DOMAIN pot_esp
        /\ \A j \in 1..(i - 1) : lista[j] \in DOMAIN pot_esp

\* C14: when a bus of index has no row in pot_esp, calc_delta_p returns no
\* vector, and when a bus of swing + pq has none, neither does calc_delta_q:
\* the call ends in a KeyError that names the first such bus of its loop, and
\* with a row for every bus it returns its vector.  In solve the error ends the
\* call: no mismatch is formed, no check, Jacobian or update follows, V and
\* theta stay as they were and nothing is returned.
C14_MissingRow ==
    [][/\ pc # "erro"
       /\ pc = "residuos" =>
            LET faltaP == \E i \in 1..Len(index) : index[i] \notin DOMAIN pot_esp
                faltaQ == \E n \in Elems(swing) \cup Elems(pq) : n \notin DOMAIN pot_esp
            IN  /\ pc' \in {"erro", "convergencia", "delta_p", "delta_q"}
                /\ pc' = "delta_p" =>
                      IF faltaP
                      THEN /\ \E b \in Nomes : erro' = KeyError(b) /\ PrimeiraSemLinha(index, b)
                           /\ UNCHANGED mismatch
                      ELSE erro' = "nenhum" /\ Len(mismatch') = Len(index)
                /\ pc' = "delta_q" =>
                      IF faltaQ
                      THEN /\ \E b \in Nomes :
                                 erro' = KeyError(b) /\ PrimeiraSemLinha(swing \o pq, b)
                           /\ UNCHANGED mismatch
                      ELSE erro' = "nenhum" /\ Len(mismatch') = Len(swing \o pq)
                /\ pc' = "convergencia" => (~faltaP /\ ~faltaQ /\ erro' = "nenhum")
                /\ pc' = "erro" =>
                      /\ faltaP
                      /\ \E b \in Nomes : erro' = KeyError(b) /\ PrimeiraSemLinha(index, b)
                      /\ UNCHANGED <<mismatch, V, theta, iteration, ret, n_atual>>
                      /\ ret = SemRetorno
                      /\ n_atual = iteration]_vars

\* solve ended in the KeyError of the bus C, the first of index without a row
\* (A has none either), before any update
C14_Witness ==
    /\ pc = "erro"
    /\ erro = KeyError("C")
    /\ DOMAIN pot_esp = {"B"}
    /\ index = <<"C", "A", "B">>
    /\ max_iter = 2 /\ n_aval = 1 /\ n_atual = 0

(***************************************************************************)
(* Properties of the errors of solve                                       *)
(***************************************************************************)
\* C15: when linalg.solve fails in an iteration, solve ends there with that
\* error: no update, no further iteration and no other attempt follows, V and
\* theta stay as they were, and solve returns nothing, converged or not.  No
\* step at all is taken after an error.
C15_LinearSolveFatal ==
    [][/\ pc # "erro"
       /\ (pc = "sistema_linear"
              /\ linalg_solve(J, [i \in 1..Len(mismatch) |-> -mismatch[i]]).erro # "nenhum") =>
            /\ pc' = "erro"
            /\ erro' = "LinAlgError"
            /\ ret' = SemRetorno
            /\ UNCHANGED <<V, theta, iteration, delta, J, n_aval, n_atual>>
       /\ (pc' = "erro" /\ erro' = "LinAlgError") => pc = "sistema_linear"]_vars

\* a singular Jacobian of finite entries, in the second iteration
C15_Witness ==
    /\ pc = "erro" /\ erro = "LinAlgError"
    /\ J.naoFinito = {}
    /\ iteration = 1 /\ n_atual = 1
    /\ ret = SemRetorno

\* C16: V and theta change only by a whole update, the two loops of
\* apply_delta over one delta; a step that ends solve, by a return or by an
\* error, leaves them as the last update made them, and they are the initial
\* values while no update was made.
C16_NoPartialState ==
    /\ []((n_atual = 0 /\ chamadas = <<>>) =>
              \A n \in Nomes : V[n] = df_bus[n].V /\ theta[n] = df_bus[n].Theta)
    /\ [][/\ (V' # V \/ theta' # theta) =>
                /\ pc = "atualiza" /\ pc' = "for"
                /\ theta' = apply_delta(theta, V, delta, index, swing, pq).theta
                /\ V' = apply_delta(theta, V, delta, index, swing, pq).V
                /\ n_atual' = n_atual + 1
          /\ pc' \in {"retorno", "erro"} =>
                /\ pc # "atualiza"
                /\ UNCHANGED <<V, theta, n_atual>>
          /\ pc' = "retorno" => (ret'.V = V /\ ret'.theta = theta)]_vars

\* an error after an update that changed magnitudes and angles
C16_Witness ==
    /\ pc = "erro" /\ n_atual = 1 /\ chamadas = <<>>
    /\ \E n \in Nomes : V[n] # df_bus[n].V
    /\ \E n \in Nomes : theta[n] # df_bus[n].Theta

\* the Jacobian with the value x at its non-finite entries
ComValor(jac, x) ==
    [jac EXCEPT !.J = [p \in DOMAIN jac.J |-> IF p \in jac.naoFinito THEN x ELSE jac.J[p]]]

\* C18: a Jacobian built with V[k] = 0 at a PQ bus k has non-finite diagonal
\* entries of N and L (and one built with no such magnitude has none), and the
\* linear solve that follows ends solve with an error, whatever stands at those
\* entries: there is no update, no further iteration and no result, converged
\* or not, and no step after the error.
C18_ZeroVoltageAborts ==
    [][/\ pc # "erro"
       /\ pc = "jacobiana" =>
            /\ pc' = "sistema_linear"
            /\ UNCHANGED <<V, theta, ret, n_atual>>
            /\ (\E k \in Elems(pq) : V[k] = 0) <=> J'.naoFinito # {}
            /\ \A k \in Elems(pq) :
                  V[k] = 0 =>
                     /\ <<Pos(index, k), Len(index) + Pos(swing \o pq, k)>> \in J'.naoFinito
                     /\ <<Len(index) + Pos(swing \o pq, k), Len(index) + Pos(swing \o pq, k)>>
                           \in J'.naoFinito
       /\ (pc = "sistema_linear" /\ J.naoFinito # {}) =>
            /\ pc' = "erro"
            /\ erro' = "LinAlgError"
            /\ ret' = SemRetorno
            /\ UNCHANGED <<V, theta, iteration, n_atual>>
            /\ \A x \in {-2, -1, 0, 1, 2} :
                  linalg_solve(ComValor(J, x), [i \in 1..Len(mismatch) |-> -mismatch[i]]).erro
                     = "LinAlgError"]_vars

\* the error of a solve whose PQ bus C has the magnitude 0 from the start
C18_Witness ==
    /\ pc = "erro" /\ erro = "LinAlgError"
    /\ "C" \in Elems(pq) /\ V["C"] = 0 /\ df_bus["C"].V = 0
    /\ J.naoFinito # {}
    /\ ret = SemRetorno

\* C19: when the labels of Ybus stand in another order than the index of V,
\* the evaluation ends in an error and computes no P and Q.
C19_OrderingMismatchFatal ==
    (ybus.nomes # index /\ n_aval > 0) => (pc = "erro" /\ erro = "AssertionError")

\* C20: no step of solve changes the admittance matrix, the specified-power
\* table or the bus lists pq, pv, swing and index, nor the tolerance, max_iter,
\* the bus table or the network; of the attributes of the solver only V and
\* theta change, and only in the update of an iteration.
C20_Immutable ==
    [][/\ UNCHANGED <<ybus, pot_esp, pq, pv, swing, index>>
       /\ UNCHANGED <<tol, max_iter, df_bus, linhas, transformadores, shunts, barras>>
       /\ (V' # V \/ theta' # theta) => (pc = "atualiza" /\ pc' = "for")]_vars

\* two updates changed the magnitude and the angle of a bus whose specified
\* powers are not 0
C20_Witness ==
    /\ n_atual = 2
    /\ \E n \in Nomes : V[n] # df_bus[n].V /\ theta[n] # df_bus[n].Theta
    /\ \E n \in Elems(swing) : pot_esp[n].P_esp # 0
    /\ ybus.nomes # index

(***************************************************************************)
(* Properties of repeated calls                                            *)
(***************************************************************************)
\* a call of solve stands in its first iteration, before the check, on a state
\* whose mismatch is below tol in every entry
JaConvergido ==
    /\ iteration = 0
    /\ pc \in {"for", "residuos", "convergencia"}
    /\ \A i \in 1..Len(MismatchDe(V, theta)) : Abs(MismatchDe(V, theta)[i]) < tol

\* the step goes on to the check and the check returns True with the count 1,
\* V and theta as they were
ConvergeSemMudar ==
    /\ UNCHANGED <<V, theta>>
    /\ pc' = CASE pc = "for" -> "residuos"
               [] pc = "residuos" -> "convergencia"
               [] pc = "convergencia" -> "retorno"
    /\ pc' = "retorno" =>
          ret' = [V |-> V, theta |-> theta, convergiu |-> TRUE, n_iter |-> 1]

\* a call of solve after one that returned True keeps V and theta as that call
\* returned them, builds no Jacobian, and returns True with the same V and theta
DepoisDeConvergir ==
    (chamadas # <<>> /\ chamadas[Len(chamadas)].convergiu) =>
        LET antes == chamadas[Len(chamadas)]
        IN  /\ V = antes.V /\ theta = antes.theta
            /\ pc \in {"for", "residuos", "convergencia", "retorno"}
            /\ n_atual = 0
            /\ pc = "retorno" =>
                  ret = [V |-> antes.V, theta |-> antes.theta, convergiu |-> TRUE,
                         n_iter |-> 1]

\* C17 as stated: on a state that already satisfies the check, whatever
\* max_iter is, solve returns True in its first iteration with V and theta
\* unchanged; and so does a call after one that returned True.
C17_IdempotenceAnyMaxIter ==
    /\ [][JaConvergido => ConvergeSemMudar]_vars
    /\ []DepoisDeConvergir

\* C17 amended: the same for max_iter >= 1 (with max_iter = 0 the loop has no
\* iteration).
C17_Idempotence ==
    /\ [][(JaConvergido /\ max_iter >= 1) => ConvergeSemMudar]_vars
    /\ []DepoisDeConvergir

\* a second call returned True at once, after a first call that converged in
\* its second iteration
C17_Witness ==
    /\ pc = "retorno"
    /\ Len(chamadas) = 1 /\ chamadas[1].convergiu /\ chamadas[1].n_iter = 2
    /\ ret.convergiu /\ ret.n_iter = 1
    /\ ret.V = chamadas[1].V /\ ret.theta = chamadas[1].theta
    /\ \E n \in Nomes : V[n] # df_bus[n].V

(***************************************************************************)
(* Properties of the Ybus assembly                                         *)
(***************************************************************************)
\* the elements of a list whose status is True
EmServico(elems) == SelectSeq(elems, LAMBDA e : e.status)

RECURSIVE SomaC(_)
SomaC(zs) == IF zs = <<>> THEN CZero ELSE CAdd(Head(zs), SomaC(Tail(zs)))

\* how many ends of the branch are at bus k
Pontas(ramo, k) == (IF ramo.de = k THEN 1 ELSE 0) + (IF ramo.para = k THEN 1 ELSE 0)
Liga(ramo, k, m) == (ramo.de = k /\ ramo.para = m) \/ (ramo.de = m /\ ramo.para = k)

\* C7: a line, transformer or shunt whose status is False leaves the matrix as
\* if it were not in the lists.
C7_DisabledContributeNothing ==
    pc = "montada" =>
        ybus = Ybus(EmServico(linhas), EmServico(transformadores), barras, EmServico(shunts))

\* C8: without transformers the matrix is symmetric.
C8_Symmetry ==
    (pc = "montada" /\ transformadores = <<>>) =>
        \A k \in Elems(ybus.nomes), m \in Elems(ybus.nomes) : Loc(ybus, k, m) = Loc(ybus, m, k)

C8_Witness ==
    /\ pc = "montada" /\ transformadores = <<>>
    /\ Len(linhas) = 2 /\ linhas[1].de # linhas[2].de /\ linhas[1].r # linhas[2].r
    /\ Len(shunts) = 1 /\ shunts[1].status /\ shunts[1].barra = "B"

\* jb/2 for every branch end at k, and jb for every shunt in service at k
Carregamento(k) ==
    SomaC([i \in 1..Len(linhas) |->
              CMul(complex(Rat(Pontas(linhas[i], k), 1), Rat(0, 1)), HalfJ(linhas[i].b))])
ShuntsEm(k) ==
    SomaC([i \in 1..Len(shunts) |->
              IF shunts[i].status /\ shunts[i].barra = k
              THEN complex(Rat(0, 1), shunts[i].b) ELSE CZero])
CarregamentoTrafos(k) ==
    SomaC([i \in 1..Len(transformadores) |->
              CMul(complex(Rat(Pontas(transformadores[i], k), 1), Rat(0, 1)),
                   HalfJ(transformadores[i].b))])
ForaDaDiagonal(k) ==
    SomaC([i \in 1..Len(ybus.nomes) |->
              IF ybus.nomes[i] = k THEN CZero ELSE Loc(ybus, k, ybus.nomes[i])])
Conserva(k) ==
    Loc(ybus, k, k) = CAdd(CAdd(CNeg(ForaDaDiagonal(k)),
                                CAdd(Carregamento(k), CarregamentoTrafos(k))),
                           ShuntsEm(k))

\* C9 as stated: in every row the diagonal is the negated sum of the
\* off-diagonal entries plus the charging and the shunt terms.
C9_ConservationAllRows ==
    pc = "montada" => \A k \in Elems(ybus.nomes) : Conserva(k)

\* C9 amended: the same, in every row whose bus has no transformer with a
\* complex tap other than 1 attached.
C9_Conservation ==
    pc = "montada" =>
        \A k \in Elems(ybus.nomes) :
            (\A i \in 1..Len(transformadores) :
                Pontas(transformadores[i], k) > 0 => tap_complexo(transformadores[i]) = COne)
            => Conserva(k)

C9_Witness ==
    /\ pc = "montada"
    /\ Len(linhas) = 1 /\ linhas[1].b # Rat(0, 1) /\ linhas[1].de = "A"
    /\ Len(transformadores) = 1 /\ tap_complexo(transformadores[1]) = COne
    /\ Len(shunts) = 1 /\ shunts[1].status /\ shunts[1].barra = "A"

Permuta(seq) ==
    IF seq = <<>> THEN {<<>>}
    ELSE {[i \in 1..Len(seq) |-> seq[p[i]]] : p \in Permutations(1..Len(seq))}

\* the sum of the terms of a list of stamps that fall at (i, j)
SomaEm(termos, i, j) ==
    SomaC([k \in 1..Len(termos) |->
              IF termos[k][1] = i /\ termos[k][2] = j THEN termos[k][3] ELSE CZero])

EmQuantas(b) ==
    (IF b \in Elems(pq) THEN 1 ELSE 0) + (IF b \in Elems(pv) THEN 1 ELSE 0)
        + (IF b \in Elems(swing) THEN 1 ELSE 0)

\* C21: for every system given to NewtonRaphson, pq, pv and swing are pairwise
\* disjoint and exhaustive: every bus of index stands in exactly one of them
C21_Partition == \A b \in Elems(index) : EmQuantas(b) = 1

\* the half of C21 that holds of every system: no bus stands in two of them
C21_Disjoint == \A b \in Elems(index) : EmQuantas(b) <= 1


(***************************************************************************)
(* C22: the shape of the Jacobian                                          *)
(***************************************************************************)
\* the block of J with nl rows and nc columns that starts after the row l0 and
\* the column c0
Bloco(l0, nl, c0, nc) == [p \in (1..nl) \X (1..nc) |-> J.J[l0 + p[1], c0 + p[2]]]

\* C22: the Jacobian built in an iteration is [[H, N], [M, L]] with H of size
\* |index| x |index|, N of |index| x |swing + pq|, M of |swing + pq| x |index|
\* and L of |swing + pq| x |swing + pq|; it is square of order |index| +
\* |swing| + |pq|, the length of the mismatch given to the linear solve and of
\* the correction given to apply_delta
C22_JacobianShape ==
    pc \in {"sistema_linear", "atualiza"} =>
        LET nt == Len(index)
            nv == Len(swing \o pq)
        IN  /\ J.n = Len(index) + Len(swing) + Len(pq)
            /\ DOMAIN J.J = (1..J.n) \X (1..J.n)
            /\ DOMAIN build_H(ybus, V, theta, Q, swing, index) = (1..nt) \X (1..nt)
            /\ DOMAIN build_N(ybus, V, theta, P, pq, swing, index) = (1..nt) \X (1..nv)
            /\ DOMAIN build_M(ybus, V, theta, P, pq, swing, index) = (1..nv) \X (1..nt)
            /\ DOMAIN build_L(ybus, V, theta, Q, pq, swing) = (1..nv) \X (1..nv)
            /\ Bloco(0, nt, 0, nt) = build_H(ybus, V, theta, Q, swing, index)
            /\ Bloco(0, nt, nt, nv) = build_N(ybus, V, theta, P, pq, swing, index)
            /\ Bloco(nt, nv, 0, nt) = build_M(ybus, V, theta, P, pq, swing, index)
            /\ Bloco(nt, nv, nt, nv) = build_L(ybus, V, theta, Q, pq, swing)
            /\ Len(mismatch) = J.n
            /\ (pc = "atualiza" => Len(delta) = J.n)

\* a Jacobian of order 5 with blocks that are not square (a PV bus and a swing
\* bus) whose correction reached apply_delta
C22_Witness ==
    /\ pc = "atualiza"
    /\ Len(index) = 3
    /\ Len(swing \o pq) = 2
    /\ swing # <<>>
    /\ J.n = 5
    /\ Len(delta) = 5


(***************************************************************************)
(* C23: the rows and columns of the swing buses                            *)
(***************************************************************************)
\* the bus of the i-th row (and column) of J: index for the equations of P and
\* the angles, swing + pq for the equations of Q and the magnitudes
BarraDe(i) == IF i <= Len(index) THEN index[i] ELSE (swing \o pq)[i - Len(index)]
\* the i-th row (column) is one of P (theta)
DeTheta(i) == i <= Len(index)

\* C23: in every Jacobian built, each entry of H, N, M and L whose row bus or
\* column bus is a swing bus is exactly 0, except the diagonal entries of H and L
\* of a swing bus, which are BIG_NUMBER
C23_BigNumber ==
    pc \in {"sistema_linear", "atualiza"} =>
        \A i \in 1..J.n, j \in 1..J.n :
            (BarraDe(i) \in Elems(swing) \/ BarraDe(j) \in Elems(swing)) =>
                /\ <<i, j>> \notin J.naoFinito
                /\ J.J[i, j] = IF BarraDe(i) = BarraDe(j) /\ DeTheta(i) = DeTheta(j)
                               THEN BIG_NUMBER ELSE 0

\* a Jacobian with a swing bus, a bus that is not swing, and an entry outside
\* the swing rows and columns that is neither 0 nor BIG_NUMBER
C23_Witness ==
    /\ pc = "sistema_linear"
    /\ swing # <<>>
    /\ \E i \in 1..J.n, j \in 1..J.n :
            /\ BarraDe(i) \notin Elems(swing)
            /\ BarraDe(j) \notin Elems(swing)
            /\ J.J[i, j] \notin {0, BIG_NUMBER}
    /\ \E i \in 1..J.n : ~DeTheta(i) /\ BarraDe(i) \in Elems(swing)


(***************************************************************************)
(* C24: the update of the state                                            *)
(***************************************************************************)
\* C24: apply_delta subtracts the i-th of the first |index| entries of the
\* correction from theta of the i-th bus of index and the i-th of the next
\* |swing + pq| entries from V of the i-th bus of swing + pq, and changes no
\* other entry of theta or V
C24_ApplyDelta ==
    [][pc = "atualiza" /\ pc' = "for" =>
        /\ Len(delta) = Len(index) + Len(swing \o pq)
        /\ \A i \in 1..Len(index) : theta'[index[i]] = theta[index[i]] - delta[i]
        /\ \A i \in 1..Len(swing \o pq) :
              V'[(swing \o pq)[i]] = V[(swing \o pq)[i]] - delta[Len(index) + i]
        /\ \A nome \in Nomes \ Elems(index) : theta'[nome] = theta[nome]
        /\ \A nome \in Nomes \ Elems(swing \o pq) : V'[nome] = V[nome]
        /\ DOMAIN theta' = DOMAIN theta
        /\ DOMAIN V' = DOMAIN V]_vars

\* an update was applied whose angle part and magnitude part both hold a
\* correction other than 0, in a system with a bus outside swing + pq
C24_Witness ==
    /\ pc = "for"
    /\ n_atual >= 1
    /\ \E i \in 1..Len(index) : delta[i] # 0
    /\ \E i \in 1..Len(swing \o pq) : delta[Len(index) + i] # 0
    /\ Elems(index) \ Elems(swing \o pq) # {}


(***************************************************************************)
(* C25: the voltages of the system and the copies of the solver            *)
(***************************************************************************)
\* the columns V and Theta of df_bus and the fields v and theta of the Bus
\* objects
Tensoes == <<[n \in DOMAIN df_bus |-> <<df_bus[n].V, df_bus[n].Theta>>], bus>>

\* every bus b has b.v = V[b.nome] and b.theta = theta[b.nome], with V and
\* theta the values solve returned, and df_bus holds the same values
Gravado ==
    \A n \in Elems(barras) :
        /\ bus[n].v = ret.V[n] /\ bus[n].theta = ret.theta[n]
        /\ df_bus[n].V = ret.V[n] /\ df_bus[n].Theta = ret.theta[n]
        /\ ret.V[n] = V[n] /\ ret.theta[n] = theta[n]

\* C25: no step of solve changes the columns V and Theta of df_bus or the
\* fields v and theta of the Bus objects; they change only in the call of
\* Sistema.atualizar_resultados(V, theta), after which every bus b has
\* b.v = V[b.nome] and b.theta = theta[b.nome] and df_bus holds the same values
C25_OwnCopies ==
    /\ [](pc = "resultados" => Gravado)
    /\ [][Tensoes' # Tensoes => pc = "retorno" /\ pc' = "resultados"]_vars
    /\ [][pc = "retorno" /\ pc' = "resultados" => V' = V /\ theta' = theta]_vars

\* solve applied corrections other than 0 to angles and to magnitudes and the
\* caller wrote the result to the system
C25_Witness ==
    /\ pc = "resultados"
    /\ n_atual >= 1
    /\ \E i \in 1..Len(index) : delta[i] # 0
    /\ \E i \in 1..Len(swing \o pq) : delta[Len(index) + i] # 0
    /\ \E n \in Nomes : bus[n].v # 1


(***************************************************************************)
(* C26: the iteration count that solve returns                             *)
(***************************************************************************)
\* C26: when solve returns converged = True with count n, then 1 <= n <=
\* max_iter, the check passed in the zero-based iteration n - 1 and exactly
\* n - 1 updates were applied; when it returns converged = False, exactly
\* max_iter updates were applied and the state the last update produced was
\* never evaluated nor tested (every evaluation was followed by an update)
C26_IterationCount ==
    pc = "retorno" =>
        IF ret.convergiu
        THEN /\ 1 <= ret.n_iter /\ ret.n_iter <= max_iter
             /\ iteration = ret.n_iter - 1
             /\ check_convergence(mismatch, tol)
             /\ n_atual = ret.n_iter - 1
             /\ n_aval = ret.n_iter
        ELSE /\ ret.n_iter = max_iter
             /\ iteration = max_iter
             /\ n_atual = max_iter
             /\ n_aval = n_atual
             /\ (max_iter >= 1 => ~check_convergence(mismatch, tol))

\* solve returned converged = True in its last iteration, after one update
C26_Witness ==
    /\ pc = "retorno"
    /\ ret.convergiu
    /\ ret.n_iter = max_iter
    /\ max_iter = 2
    /\ n_atual = 1

\* solve returned converged = False on a state that passes the check
C26_WitnessNaoTestado ==
    /\ pc = "retorno"
    /\ ~ret.convergiu
    /\ max_iter >= 1
    /\ check_convergence(MismatchDe(V, theta), tol)


(***************************************************************************)
(* C27: one order of buses and quantities in every component               *)
(***************************************************************************)
\* the residual of the equation of bus b (of P if deP, else of Q), read from
\* pot_esp, P and Q by the name of the bus
ResiduoDe(b, deP) ==
    IF b \in Elems(swing) THEN 0
    ELSE IF deP THEN pot_esp[b].P_esp - P[b] ELSE pot_esp[b].Q_esp - Q[b]

\* the derivative of the equation of bus k (of P if deP, else of Q) by the
\* unknown of bus m (theta if deTheta, else V): for two buses that are not
\* swing, the block built for these two buses alone
EntradaDe(k, deP, m, deTheta) ==
    IF k \in Elems(swing) \/ m \in Elems(swing)
    THEN (IF k = m /\ deP = deTheta THEN BIG_NUMBER ELSE 0)
    ELSE IF deP /\ deTheta THEN build_H(ybus, V, theta, Q, <<>>, <<k, m>>)[1, 2]
    ELSE IF deP THEN build_N(ybus, V, theta, P, <<m>>, <<>>, <<k>>)[1, 1]
    ELSE IF deTheta THEN build_M(ybus, V, theta, P, <<k>>, <<>>, <<m>>)[1, 1]
    ELSE build_L(ybus, V, theta, Q, <<k, m>>, <<>>)[1, 2]

\* the position of (bus, quantity) in the vectors of a solver whose lists are
\* idx, sw and pq_
PosDe(idx, sw, pq_, b, deTheta) ==
    IF deTheta THEN Pos(idx, b) ELSE Len(idx) + Pos(sw \o pq_, b)

\* the lists of a solver of the same system with its buses in the order o
ListasNaOrdem(o) ==
    [index |-> o, pq |-> DoTipo(o, df_bus, "PQ"), pv |-> DoTipo(o, df_bus, "PV"),
     swing |-> DoTipo(o, df_bus, "SWING")]

\* the bus and the quantity of the k-th entry of the vectors of that solver
BarraNaOrdem(l, k) ==
    IF k <= Len(l.index) THEN l.index[k] ELSE (l.swing \o l.pq)[k - Len(l.index)]

\* the vector vec of this solver, entry by entry under the bus and quantity
\* that the solver with the lists l has at each position
ParaAOrdem(l, vec) ==
    [k \in 1..Len(vec) |->
        vec[PosDe(index, swing, pq, BarraNaOrdem(l, k), k <= Len(l.index))]]

\* the mismatch of the iteration computed by the solver with the lists l
MismatchNaOrdem(l) ==
    calc_delta_p(P, pot_esp, l.index, l.swing) \o calc_delta_q(Q, pot_esp, l.pq, l.swing)

\* the correction of the iteration computed by the solver with the lists l:
\* its Jacobian and its linear solve
CorrecaoNaOrdem(l) ==
    linalg_solve(Jacobian(ybus, V, theta, P, Q, l.pq, l.pv, l.swing, l.index),
                 [i \in 1..Len(mismatch) |-> -ParaAOrdem(l, mismatch)[i]])

\* with the buses given in the order o, every entry of the mismatch and of the
\* correction is the entry this solver has for the same bus and quantity
MesmaCorrecao(o) ==
    /\ MismatchNaOrdem(ListasNaOrdem(o)) = ParaAOrdem(ListasNaOrdem(o), mismatch)
    /\ CorrecaoNaOrdem(ListasNaOrdem(o))
          = [erro |-> "nenhum", x |-> ParaAOrdem(ListasNaOrdem(o), delta)]

\* C27: in every iteration and for any order of the buses in the input, the
\* k-th entry of the mismatch, the k-th row and the k-th column of the Jacobian
\* and the k-th entry of the correction that apply_delta applies refer to the
\* same bus and the same quantity: index order for P and theta, swing-then-pq
\* order for Q and V
C27_OrderingConsistency ==
    /\ [](pc \in {"sistema_linear", "atualiza"} =>
            /\ \A k \in 1..J.n : mismatch[k] = ResiduoDe(BarraDe(k), DeTheta(k))
            /\ \A i \in 1..J.n, j \in 1..J.n :
                  J.J[i, j] = EntradaDe(BarraDe(i), DeTheta(i), BarraDe(j), DeTheta(j)))
    /\ [](pc = "atualiza" => \A o \in Permuta(index) : MesmaCorrecao(o))
    /\ [][pc = "atualiza" /\ pc' = "for" =>
            \A k \in 1..J.n :
                IF DeTheta(k) THEN theta'[BarraDe(k)] = theta[BarraDe(k)] - delta[k]
                ELSE V'[BarraDe(k)] = V[BarraDe(k)] - delta[k]]_vars

\* an update was applied in a system whose buses are not in the order of their
\* names, with two buses in swing + pq that stand there in another order than
\* in index, and with corrections other than 0 for an angle and a magnitude
C27_Witness ==
    /\ pc = "for"
    /\ n_atual >= 1
    /\ index = <<"C", "A", "B">>
    /\ swing \o pq = <<"A", "C">>
    /\ \E k \in 1..Len(index) : delta[k] # 0
    /\ \E k \in (Len(index) + 1)..Len(delta) : delta[k] # 0


(***************************************************************************)
(* C28: calls of solve one after the other                                 *)
(***************************************************************************)
\* what one call of solve returns with the loop at iteration it of mi and the
\* state (v, th): the loop of NewtonRaphson.solve as a function of the state.
\* A call that an exception leaves returns nothing (SemRetorno).
RECURSIVE solve(_, _, _, _)
solve(v, th, it, mi) ==
    IF it >= mi THEN [V |-> v, theta |-> th, convergiu |-> FALSE, n_iter |-> mi]
    ELSE LET m == MismatchDe(v, th)
         IN  IF check_convergence(m, tol)
             THEN [V |-> v, theta |-> th, convergiu |-> TRUE, n_iter |-> it + 1]
             ELSE LET r == calc_injected_power(ybus, v, th, index)
                      d == linalg_solve(Jacobian(ybus, v, th, r.P, r.Q, pq, pv, swing, index),
                                        [i \in 1..Len(m) |-> -m[i]])
                  IN  IF d.erro # "nenhum" THEN SemRetorno
                      ELSE LET a == apply_delta(th, v, d.x, index, swing, pq)
                           IN  solve(a.V, a.theta, it + 1, mi)

\* the setpoints the solver was built with
V0 == [n \in Nomes |-> df_bus[n].V]
theta0 == [n \in Nomes |-> df_bus[n].Theta]

\* C28: a second call of solve starts from the (V, theta) the first call left,
\* not from the setpoints: two calls with max_iter = n that both fail to
\* converge end in the state in which one call with max_iter = 2n ends, which
\* fails to converge too
C28_StateAcrossCalls ==
    /\ (pc = "retorno" /\ chamadas = <<>>) => ret = solve(V0, theta0, 0, max_iter)
    /\ (pc = "for" /\ iteration = 0 /\ Len(chamadas) = 1) =>
          V = chamadas[1].V /\ theta = chamadas[1].theta
    /\ (pc = "retorno" /\ Len(chamadas) = 1 /\ ~chamadas[1].convergiu /\ ~ret.convergiu) =>
          /\ ret = solve(chamadas[1].V, chamadas[1].theta, 0, max_iter)
          /\ solve(V0, theta0, 0, 2 * max_iter)
                = [V |-> V, theta |-> theta, convergiu |-> FALSE, n_iter |-> 2 * max_iter]

\* two calls with max_iter >= 1 both failed to converge, and both changed the
\* state
C28_Witness ==
    /\ pc = "retorno"
    /\ Len(chamadas) = 1
    /\ ~chamadas[1].convergiu
    /\ ~ret.convergiu
    /\ max_iter >= 1
    /\ chamadas[1].V # V0
    /\ ret.V # chamadas[1].V
    /\ ret.theta # chamadas[1].theta


(***************************************************************************)
(* C29: max_iter = 0                                                       *)
(***************************************************************************)
\* C29: with max_iter = 0, solve evaluates no power balance, makes no
\* convergence check and no update, and returns the initial (V, theta) with
\* converged = False and the count 0, also when the initial state satisfies the
\* power balance
C29_MaxIterZero ==
    max_iter = 0 =>
        /\ pc \in {"for", "retorno"}
        /\ n_aval = 0 /\ n_atual = 0
        /\ mismatch = <<>> /\ J = SemJ /\ delta = <<>>
        /\ erro = "nenhum"
        /\ V = V0 /\ theta = theta0
        /\ pc = "retorno" =>
              ret = [V |-> V0, theta |-> theta0, convergiu |-> FALSE, n_iter |-> 0]
        /\ \A i \in 1..Len(chamadas) :
              chamadas[i] = [V |-> V0, theta |-> theta0, convergiu |-> FALSE, n_iter |-> 0]

\* solve returned with max_iter = 0 on setpoints that pass the convergence
\* check
C29_Witness ==
    /\ max_iter = 0
    /\ pc = "retorno"
    /\ check_convergence(MismatchDe(V0, theta0), tol)
    /\ ~ret.convergiu


(***************************************************************************)
(* C30: elements that name a bus the system does not have                  *)
(***************************************************************************)
\* an end of the branch is not among the bus names
PontaDesconhecida(ramo) == ramo.de \notin Elems(barras) \/ ramo.para \notin Elems(barras)
\* some line or transformer has an end that is not among the bus names
RamoDesconhecido ==
    \/ \E k \in 1..Len(linhas) : PontaDesconhecida(linhas[k])
    \/ \E k \in 1..Len(transformadores) : PontaDesconhecida(transformadores[k])
\* the shunts whose bus is among the bus names
ShuntsConhecidos == SelectSeq(shunts, LAMBDA sh : sh.barra \in Elems(barras))

\* C30: a shunt in service whose bus is not among the bus names is ignored
\* without an error (the matrix is the one without that shunt), while a line
\* or a transformer with an end that is not among the bus names ends the
\* assembly with an error and no matrix
C30_UnknownBus ==
    /\ pc = "montada" =>
          /\ ~RamoDesconhecido
          /\ ybus.erro = "nenhum"
          /\ ybus = Ybus(linhas, transformadores, barras, ShuntsConhecidos)
    /\ pc = "erro" =>
          /\ RamoDesconhecido
          /\ erro = "KeyError"
          /\ ybus = SemYbus
    /\ pc = "entrada" => ybus = SemYbus

\* a matrix was assembled from lists with a shunt in service at a bus the
\* system does not have, and with a branch and a shunt that are stamped
C30_Witness ==
    /\ pc = "montada"
    /\ \E k \in 1..Len(shunts) : shunts[k].status /\ shunts[k].barra = Desconhecida
    /\ \E k \in 1..Len(shunts) : shunts[k].status /\ shunts[k].barra \in Elems(barras)
    /\ Len(linhas) + Len(transformadores) >= 1

\* the assembly ended in an error for a transformer with an unknown end, with
\* every line known
C30_WitnessErro ==
    /\ pc = "erro"
    /\ \E k \in 1..Len(transformadores) : PontaDesconhecida(transformadores[k])
    /\ Len(linhas) >= 1
    /\ \A k \in 1..Len(linhas) : ~PontaDesconhecida(linhas[k])

=============================================================================
